---- MODULE Spec2Model ----
(***************************************************************************)
(* Model of the auth service of shadcn-admin                               *)
(* (auth-service/src/auth.config.ts): the Auth.js callbacks jwt, session   *)
(* and redirect, the refresh decision shouldRefreshToken, the upstream     *)
(* exchange refreshAccessToken and the process-wide registry refreshLocks. *)
(*                                                                         *)
(* JavaScript values are modelled as follows.                              *)
(*   - a string that is only compared or concatenated (accessToken,        *)
(*     refreshToken, sub, error) is a TLA+ string; the JavaScript value    *)
(*     undefined of such a field is the string Undefined;                  *)
(*   - a string that is parsed or prefix-tested (expiresAt given as text,  *)
(*     the urls of the redirect callback) is a sequence of one-character   *)
(*     strings, so that Number() and startsWith() are computed character   *)
(*     by character;                                                       *)
(*   - a value of type number | string | undefined (expiresAt) is a tagged *)
(*     record, see NumV, StrV, UndefV, NaNV.                               *)
(***************************************************************************)
EXTENDS Integers, Sequences, FiniteSets, TLC

VARIABLES
    now,          \* Math.floor(Date.now() / 1000): the epoch second
    ticks,        \* how many times the clock has advanced (bounded)
    env,          \* process.env: which of the KEYCLOAK_* values are set
    cookie,       \* per browser session: the session token its cookie holds
    refreshLocks, \* the Map refreshLocks: lock key -> rotation (its creator)
    rot,          \* per invocation: the rotation (refreshPromise) it created
    caller,       \* per jwt invocation: where it is and what it returned
    requests,     \* the requests POSTed to the token endpoint
    srIn,         \* a call of shouldRefreshToken: the expiresAt and clock given
    srOut,        \* a call of shouldRefreshToken: the result
    rdIn,         \* a call of callbacks.redirect: the urls given
    rdOut,        \* a call of callbacks.redirect: the url returned
    seIn,         \* a call of callbacks.session: the token and session given
    seOut,        \* a call of callbacks.session: the session returned
    client,       \* the single-page application: a load of a protected route
    gen,          \* a run of scripts/gensecret.ts, with the files it reads and writes
    store         \* the zustand auth store and the calls of its fetchSession

vars == <<now, ticks, env, cookie, refreshLocks, rot, caller, requests,
          srIn, srOut, rdIn, rdOut, seIn, seOut, client, gen, store>>

----------------------------------------------------------------------------
(* Program constants *)

REFRESH_TOKEN_WINDOW_SECONDS == 60

DefaultExpiresIn == 60 * 60

REFRESH_TOKEN_ERROR == "RefreshTokenError"

\* The JavaScript value undefined of a string-typed field.
Undefined == "undefined"

----------------------------------------------------------------------------
(* JavaScript values of type number | string | undefined *)

NumV(n) == [kind |-> "number", num |-> n, str |-> <<>>]
NaNV == [kind |-> "NaN", num |-> 0, str |-> <<>>]
StrV(s) == [kind |-> "string", num |-> 0, str |-> s]
UndefV == [kind |-> "undefined", num |-> 0, str |-> <<>>]

Digits == <<"0", "1", "2", "3", "4", "5", "6", "7", "8", "9">>

IsDigit(ch) == \E i \in 1..10 : Digits[i] = ch

DigitValue(ch) == (CHOOSE i \in 1..10 : Digits[i] = ch) - 1

IsWhiteSpace(ch) == ch = " "

\* StringToNumber trims white space on both sides first.
RECURSIVE TrimLeft(_)
TrimLeft(s) ==
    IF s # <<>> /\ IsWhiteSpace(Head(s)) THEN TrimLeft(Tail(s)) ELSE s

RECURSIVE TrimRight(_)
TrimRight(s) ==
    IF s # <<>> /\ IsWhiteSpace(s[Len(s)])
    THEN TrimRight(SubSeq(s, 1, Len(s) - 1))
    ELSE s

Trim(s) == TrimRight(TrimLeft(s))

AllDigits(s) == s # <<>> /\ \A i \in 1..Len(s) : IsDigit(s[i])

RECURSIVE DecimalValue(_)
DecimalValue(s) ==
    IF s = <<>> THEN 0
    ELSE 10 * DecimalValue(SubSeq(s, 1, Len(s) - 1)) + DigitValue(s[Len(s)])

\* Number(text): the empty or blank text is 0, an optionally signed run of
\* decimal digits is its value, anything else is NaN.
StringToNumber(s) ==
    LET t == Trim(s) IN
    IF t = <<>> THEN NumV(0)
    ELSE IF AllDigits(t) THEN NumV(DecimalValue(t))
    ELSE IF Head(t) = "-" /\ AllDigits(Tail(t)) THEN NumV(0 - DecimalValue(Tail(t)))
    ELSE IF Head(t) = "+" /\ AllDigits(Tail(t)) THEN NumV(DecimalValue(Tail(t)))
    ELSE NaNV

\* Number(v) for v of type number | string | undefined.
Number(v) ==
    CASE v.kind = "number" -> v
      [] v.kind = "NaN" -> NaNV
      [] v.kind = "string" -> StringToNumber(v.str)
      [] OTHER -> NaNV

\* !v : undefined, 0, NaN and the empty string are falsy.
Falsy(v) ==
    CASE v.kind = "number" -> v.num = 0
      [] v.kind = "NaN" -> TRUE
      [] v.kind = "string" -> v.str = <<>>
      [] OTHER -> TRUE

\* String(n): the decimal text of a number.
RECURSIVE NatToString(_)
NatToString(n) ==
    IF n < 10 THEN <<Digits[n + 1]>>
    ELSE NatToString(n \div 10) \o <<Digits[(n % 10) + 1]>>

NumberToString(v) ==
    IF v.kind = "NaN" THEN <<"N", "a", "N">>
    ELSE IF v.num < 0 THEN <<"-">> \o NatToString(0 - v.num)
    ELSE NatToString(v.num)

----------------------------------------------------------------------------
(* shouldRefreshToken *)

shouldRefreshToken(token, clock) ==
    IF Falsy(token.expiresAt) THEN FALSE
    ELSE LET expiresAt == Number(token.expiresAt) IN
         IF expiresAt.kind = "NaN" THEN FALSE
         ELSE clock >= expiresAt.num - REFRESH_TOKEN_WINDOW_SECONDS

----------------------------------------------------------------------------
(* callbacks.session *)

\* An object is a function from its property names to their values; the
\* session object is its own properties (top) and those of session.user
\* (user, meaningful when hasUser).
SetProp(obj, key, value) ==
    [k \in DOMAIN obj \cup {key} |-> IF k = key THEN value ELSE obj[k]]

EmptyObject == [k \in {} |-> Undefined]

Truthy(str) == str # Undefined /\ str # ""

\* A session callback that copies the access token into the session.
sessionCallbackLeaky(session, token) ==
    [session EXCEPT !.top = SetProp(@, "accessToken", token.accessToken)]

\* A session callback that sets user.id and leaves the error flag out.
sessionCallbackNoError(session, token) ==
    IF Truthy(token.sub)
    THEN [session EXCEPT !.hasUser = TRUE,
                         !.user = SetProp(IF session.hasUser THEN @ ELSE EmptyObject,
                                          "id", token.sub)]
    ELSE session

sessionCallback(session, token) ==
    LET s1 == IF Truthy(token.error)
              THEN [session EXCEPT !.top = SetProp(@, "error", token.error)]
              ELSE session
    IN  IF Truthy(token.sub)
        THEN [s1 EXCEPT !.hasUser = TRUE,
                        !.user = SetProp(IF s1.hasUser THEN @ ELSE EmptyObject,
                                         "id", token.sub)]
        ELSE s1

----------------------------------------------------------------------------
(* callbacks.redirect *)

DefaultAppUrl == <<"h", "t", "t", "p", ":", "/", "/", "l", "o", "c", "a", "l", "h", "o", "s", "t", ":", "5", "1", "7", "3">>

StartsWith(s, prefix) ==
    Len(prefix) <= Len(s) /\ SubSeq(s, 1, Len(prefix)) = prefix

\* process.env.APP_URL || "http://localhost:5173": the unset and the empty
\* variable are both the empty sequence here.
AppUrl(appUrlEnv) == IF appUrlEnv = <<>> THEN DefaultAppUrl ELSE appUrlEnv

\* A redirect callback that resolves a path and lets every other url through.
redirectUnchecked(url, baseUrl, appUrlEnv) ==
    IF StartsWith(url, <<"/">>) THEN baseUrl \o url ELSE url

redirect(url, baseUrl, appUrlEnv) ==
    LET appUrl == AppUrl(appUrlEnv) IN
    IF StartsWith(url, appUrl) THEN url
    ELSE IF StartsWith(url, <<"/">>) THEN baseUrl \o url
    ELSE appUrl

\* new URL(text).origin, for the shapes scheme://[userinfo@]host[:port][/...].
\* valid is FALSE where the URL constructor throws or the origin is opaque.
IndexOf(s, ch) ==
    IF \E i \in 1..Len(s) : s[i] = ch
    THEN CHOOSE i \in 1..Len(s) : s[i] = ch /\ \A j \in 1..(i - 1) : s[j] # ch
    ELSE 0

LastIndexOf(s, ch) ==
    IF \E i \in 1..Len(s) : s[i] = ch
    THEN CHOOSE i \in 1..Len(s) : s[i] = ch /\ \A j \in (i + 1)..Len(s) : s[j] # ch
    ELSE 0

NoOrigin == [valid |-> FALSE, scheme |-> <<>>, host |-> <<>>, port |-> <<>>]

IsHostChar(ch) == ch \notin {"/", ":", "@", " ", "?", "#"}

DefaultPort(scheme) ==
    IF scheme = <<"h", "t", "t", "p">> THEN <<"8", "0">>
    ELSE IF scheme = <<"h", "t", "t", "p", "s">> THEN <<"4", "4", "3">>
    ELSE <<>>

Origin(url) ==
    LET c == IndexOf(url, ":") IN
    IF c < 2 \/ Len(url) < c + 2 \/ url[c + 1] # "/" \/ url[c + 2] # "/"
    THEN NoOrigin
    ELSE
      LET scheme == SubSeq(url, 1, c - 1)
          rest == SubSeq(url, c + 3, Len(url))
          slash == IndexOf(rest, "/")
          authority == IF slash = 0 THEN rest ELSE SubSeq(rest, 1, slash - 1)
          at == LastIndexOf(authority, "@")
          hostport == SubSeq(authority, at + 1, Len(authority))
          colon == IndexOf(hostport, ":")
          host == IF colon = 0 THEN hostport ELSE SubSeq(hostport, 1, colon - 1)
          port == IF colon = 0 THEN <<>>
                  ELSE SubSeq(hostport, colon + 1, Len(hostport))
      IN  IF \/ host = <<>>
             \/ \E i \in 1..Len(host) : ~IsHostChar(host[i])
             \/ \E i \in 1..Len(scheme) : ~IsHostChar(scheme[i])
             \/ (port # <<>> /\ ~AllDigits(port))
          THEN NoOrigin
          ELSE [valid |-> TRUE, scheme |-> scheme, host |-> host,
                port |-> IF port = <<>> THEN DefaultPort(scheme) ELSE port]

----------------------------------------------------------------------------
(* Bounds of the model *)

\* jwt invocations (requests carrying a session cookie) in one behaviour
MaxCallers == 2

\* advances of the clock in one behaviour
MaxTicks == 1

\* characters appended to the application URL to build redirect targets
MaxSuffixLen == 2

\* calls of fetchSession of the auth store
MaxFetches == 2

\* calls of reset of the auth store
MaxResets == 1

Callers == 1..MaxCallers

----------------------------------------------------------------------------
(* Session tokens and the outcomes of promises *)

Token(at, rt, exp, err, sub) ==
    [accessToken |-> at, refreshToken |-> rt, expiresAt |-> exp,
     error |-> err, sub |-> sub]

NoToken == Token(Undefined, Undefined, UndefV, Undefined, Undefined)

\* A promise is pending, fulfilled with a token, or rejected.
Pending == [kind |-> "pending", token |-> NoToken]
Fulfilled(token) == [kind |-> "token", token |-> token]
Rejected == [kind |-> "rejected", token |-> NoToken]

NoAccount == [present |-> FALSE, access_token |-> Undefined,
              refresh_token |-> Undefined, expires_at |-> UndefV]

\* An error result that clears the credentials of the token to force a new
\* sign-in.
WithErrorCleared(token) ==
    [token EXCEPT !.error = REFRESH_TOKEN_ERROR, !.accessToken = Undefined,
                  !.refreshToken = Undefined, !.expiresAt = UndefV]

\* An error result that leaves the error flag out.
WithErrorMissing(token) == token

\* { ...token, error: REFRESH_TOKEN_ERROR }
WithError(token) == [token EXCEPT !.error = REFRESH_TOKEN_ERROR]

----------------------------------------------------------------------------
(* refreshAccessToken, in the steps between its suspension points *)

\* A configuration check that looks at the issuer only.
EnvConfiguredIssuerOnly(e) == e.issuer

EnvConfigured(e) == e.issuer /\ e.clientId /\ e.clientSecret

\* Lines 17-43: what the call does before it first suspends. "error" is an
\* immediate error-marked result, "fetch" a request sent to the token endpoint.
RefreshStart(token, e) ==
    IF ~Truthy(token.refreshToken) THEN "error"
    ELSE IF ~EnvConfigured(e) THEN "error"
    ELSE "fetch"

\* Number(refreshed.expires_in) || 60 * 60
ExpiresInOrDefault(expires_in) ==
    LET n == Number(expires_in) IN
    IF n.kind = "NaN" \/ n.num = 0 THEN DefaultExpiresIn ELSE n.num

\* A refresh token taken from the response also when the response has none.
KeepOrReplaceAlways(newRt, oldRt) == newRt

\* refreshed.refresh_token ?? token.refreshToken
KeepOrReplace(newRt, oldRt) == IF newRt = Undefined THEN oldRt ELSE newRt

\* A refresh that takes expires_in for the expiry, without adding Date.now().
RefreshedNoClock(token, refreshed, clock) ==
    [token EXCEPT !.error = Undefined,
                  !.accessToken = refreshed.access_token,
                  !.refreshToken = KeepOrReplace(refreshed.refresh_token, @),
                  !.expiresAt = NumV(ExpiresInOrDefault(refreshed.expires_in))]

\* Lines 55-63: the token returned for a success response, at epoch second clock.
Refreshed(token, refreshed, clock) ==
    [token EXCEPT !.error = Undefined,
                  !.accessToken = refreshed.access_token,
                  !.refreshToken = KeepOrReplace(refreshed.refresh_token, @),
                  !.expiresAt = NumV(clock + ExpiresInOrDefault(refreshed.expires_in))]

----------------------------------------------------------------------------
(* callbacks.jwt *)

\* A lock key made of the subject alone.
LockKeySubOnly(token) == IF Truthy(token.sub) THEN token.sub ELSE token.refreshToken

LockKey(token) ==
    IF Truthy(token.sub)
    THEN token.sub \o ":" \o token.refreshToken
    ELSE token.refreshToken

\* refreshLocks.get(lockKey): the rotation registered under the key, 0 if none
Existing(locks, key) == IF key \in DOMAIN locks THEN locks[key] ELSE 0

\* A registration that is missing (or comes only after the awaited exchange).
SetLockMissing(locks, key, p) == locks

\* refreshLocks.set(lockKey, refreshPromise)
SetLock(locks, key, p) ==
    [k \in DOMAIN locks \cup {key} |-> IF k = key THEN p ELSE locks[k]]

\* A settlement that leaves the entry in the registry.
DeleteLockMissing(locks, key) == locks

\* refreshLocks.delete(lockKey)
DeleteLock(locks, key) == [k \in DOMAIN locks \ {key} |-> locks[k]]

\* A .then callback that stamps the refresh token where the sub belongs.
StampSubWrongField(refreshedToken, token) ==
    [refreshedToken EXCEPT !.sub = token.refreshToken]

\* The .then callback: stamp the sub of the presented token on the result.
StampSub(refreshedToken, token) ==
    IF Truthy(token.sub) THEN [refreshedToken EXCEPT !.sub = token.sub]
    ELSE refreshedToken

\* A response body that has not been read.
NoBody == [access_token |-> Undefined, refresh_token |-> Undefined,
           expires_in |-> UndefV, sub |-> Undefined]

\* A rotation: the call refreshAccessToken(token) with its local refreshed
\* (body), the epoch second of its Date.now() (at), the promise it returned
\* (inner) and refreshPromise (out).
NoRotation == [phase |-> "none", key |-> "", token |-> NoToken, body |-> NoBody,
               at |-> 0, inner |-> Pending, out |-> Pending]

\* An invocation of the jwt callback: presented is the token decoded from the
\* cookie of the request, arg the object passed as token (its fields as they
\* are now), result the outcome of the promise the invocation returned, and
\* same tells that the result is the object arg itself.
IdleCaller == [pc |-> "idle", sess |-> "A", presented |-> NoToken, arg |-> NoToken,
               account |-> NoAccount, await |-> 0, result |-> Pending,
               same |-> FALSE]

\* A request arrives carrying the session cookie the browser holds; Auth.js
\* decodes it and calls the jwt callback with it. Invocations are numbered in
\* the order of arrival.
Arrive(c, s, account) ==
    /\ caller[c].pc = "idle"
    /\ \A d \in Callers : d < c => caller[d].pc # "idle"
    /\ caller' = [caller EXCEPT ![c].pc = "arrived", ![c].sess = s,
                                ![c].presented = cookie[s],
                                ![c].arg = cookie[s], ![c].account = account]
    /\ UNCHANGED <<now, ticks, env, cookie, refreshLocks, rot, requests>>

\* A sign-in that stores the tokens of the account and keeps the error flag.
SignInResultKeepsError(token, account) ==
    LET assigned == [token EXCEPT !.accessToken = account.access_token,
                                  !.refreshToken = account.refresh_token,
                                  !.expiresAt = account.expires_at]
    IN [arg |-> assigned, value |-> assigned, same |-> TRUE]

\* What a return of jwt leaves behind: the fields of the object passed as
\* token (arg), the value returned, and whether that value is the object itself.
\* Lines 90-96: the fields of token are assigned, and token is returned.
SignInResult(token, account) ==
    LET assigned == [token EXCEPT !.accessToken = account.access_token,
                                  !.refreshToken = account.refresh_token,
                                  !.expiresAt = account.expires_at,
                                  !.error = Undefined]
    IN [arg |-> assigned, value |-> assigned, same |-> TRUE]

\* A return of the token that drops its refresh token on the way.
SameResultWithoutRefreshToken(token) ==
    LET stripped == [token EXCEPT !.refreshToken = Undefined] IN
    [arg |-> stripped, value |-> stripped, same |-> TRUE]

\* Line 99: return token.
SameResult(token) == [arg |-> token, value |-> token, same |-> TRUE]

\* An error flag assigned to the token object itself, which is then returned.
ErrorResultInPlace(token) ==
    [arg |-> WithError(token), value |-> WithError(token), same |-> TRUE]

\* Line 104: return { ...token, error: REFRESH_TOKEN_ERROR }, a new object.
ErrorResult(token) == [arg |-> token, value |-> WithError(token), same |-> FALSE]

\* Auth.js encodes the token a jwt invocation returned into the session cookie.
Returned(c, r) ==
    /\ caller' = [caller EXCEPT ![c].pc = "done", ![c].arg = r.arg,
                                ![c].result = Fulfilled(r.value),
                                ![c].same = r.same]
    /\ cookie' = [cookie EXCEPT ![caller[c].sess] = r.value]

\* Lines 90-96: initial sign-in.
JwtSignIn(c) ==
    LET token == caller[c].arg
        account == caller[c].account
    IN
    /\ account.present
    /\ Returned(c, SignInResult(token, account))
    /\ UNCHANGED <<refreshLocks, rot, requests>>

\* Lines 98-100: no rotation is due.
JwtNoRefresh(c) ==
    LET token == caller[c].arg IN
    /\ ~caller[c].account.present
    /\ ~shouldRefreshToken(token, now)
    /\ Returned(c, SameResult(token))
    /\ UNCHANGED <<refreshLocks, rot, requests>>

\* Lines 102-105: stale, and no refresh token.
JwtNoRefreshToken(c) ==
    LET token == caller[c].arg IN
    /\ ~caller[c].account.present
    /\ shouldRefreshToken(token, now)
    /\ ~Truthy(token.refreshToken)
    /\ Returned(c, ErrorResult(token))
    /\ UNCHANGED <<refreshLocks, rot, requests>>

\* Lines 109-115: a rotation is registered under the key; return its promise.
JwtAttach(c) ==
    LET token == caller[c].arg IN
    /\ ~caller[c].account.present
    /\ shouldRefreshToken(token, now)
    /\ Truthy(token.refreshToken)
    /\ Existing(refreshLocks, LockKey(token)) # 0
    /\ caller' = [caller EXCEPT ![c].pc = "waiting",
                                ![c].await = Existing(refreshLocks, LockKey(token))]
    /\ UNCHANGED <<cookie, refreshLocks, rot, requests>>

\* Lines 117-129: start a rotation, register it, return its promise. The call
\* of refreshAccessToken runs to its first suspension point inside this step.
JwtRotate(c) ==
    LET token == caller[c].arg
        key == LockKey(token)
        start == RefreshStart(token, env)
    IN
    /\ ~caller[c].account.present
    /\ shouldRefreshToken(token, now)
    /\ Truthy(token.refreshToken)
    /\ Existing(refreshLocks, key) = 0
    /\ rot' = [rot EXCEPT ![c] =
                 [phase |-> IF start = "fetch" THEN "fetch" ELSE "inner",
                  key |-> key, token |-> token, body |-> NoBody, at |-> 0,
                  inner |-> IF start = "fetch" THEN Pending
                            ELSE Fulfilled(WithError(token)),
                  out |-> Pending]]
    /\ requests' = IF start = "fetch"
                   THEN requests \cup {[by |-> c, refresh_token |-> token.refreshToken]}
                   ELSE requests
    /\ refreshLocks' = SetLock(refreshLocks, key, c)
    /\ caller' = [caller EXCEPT ![c].pc = "waiting", ![c].await = c]
    /\ UNCHANGED cookie

\* callbacks.jwt({ token, account }), up to its return.
Jwt(c) ==
    /\ caller[c].pc = "arrived"
    /\ \/ JwtSignIn(c)
       \/ JwtNoRefresh(c)
       \/ JwtNoRefreshToken(c)
       \/ JwtAttach(c)
       \/ JwtRotate(c)
    /\ UNCHANGED <<now, ticks, env>>

----------------------------------------------------------------------------
(* The continuations of a rotation *)

SettleInner(p, phase, outcome) ==
    rot' = [rot EXCEPT ![p].phase = phase, ![p].inner = outcome]

\* Line 37 resumes with a response; line 45-47 for a non-success status.
FetchResponds(p, ok) ==
    /\ rot[p].phase = "fetch"
    /\ IF ok THEN SettleInner(p, "json", Pending)
       ELSE SettleInner(p, "inner", Fulfilled(WithError(rot[p].token)))
    /\ UNCHANGED <<now, ticks, env, cookie, refreshLocks, caller, requests>>

\* Line 37: fetch rejects (the token endpoint cannot be reached).
FetchThrows(p) ==
    /\ rot[p].phase = "fetch"
    /\ SettleInner(p, "inner", Rejected)
    /\ UNCHANGED <<now, ticks, env, cookie, refreshLocks, caller, requests>>

\* Lines 49-63: the body is read and the refreshed token is built.
JsonResolves(p, refreshed) ==
    /\ rot[p].phase = "json"
    /\ rot' = [rot EXCEPT ![p].phase = "inner", ![p].body = refreshed,
                          ![p].at = now,
                          ![p].inner = Fulfilled(Refreshed(rot[p].token, refreshed, now))]
    /\ UNCHANGED <<now, ticks, env, cookie, refreshLocks, caller, requests>>

\* Line 49: response.json() rejects (the body is not JSON, the stream breaks).
JsonThrows(p) ==
    /\ rot[p].phase = "json"
    /\ SettleInner(p, "inner", Rejected)
    /\ UNCHANGED <<now, ticks, env, cookie, refreshLocks, caller, requests>>

\* Lines 118-126: the .then callback (skipped on rejection), then the
\* .finally callback; refreshPromise settles after both.
ThenFinally(p) ==
    /\ rot[p].phase = "inner"
    /\ refreshLocks' = DeleteLock(refreshLocks, rot[p].key)
    /\ rot' = [rot EXCEPT ![p].phase = "settled",
                          ![p].out = IF rot[p].inner.kind = "token"
                                     THEN Fulfilled(StampSub(rot[p].inner.token,
                                                             rot[p].token))
                                     ELSE rot[p].inner]
    /\ UNCHANGED <<now, ticks, env, cookie, caller, requests>>

\* The promise an invocation returned has settled: the invocation completes
\* with its outcome (the object refreshAccessToken built, never the object
\* passed as token), and a token is encoded into the session cookie.
Resume(c) ==
    /\ caller[c].pc = "waiting"
    /\ rot[caller[c].await].phase = "settled"
    /\ caller' = [caller EXCEPT ![c].pc = "done",
                                ![c].result = rot[caller[c].await].out]
    /\ cookie' = IF rot[caller[c].await].out.kind = "token"
                 THEN [cookie EXCEPT ![caller[c].sess] = rot[caller[c].await].out.token]
                 ELSE cookie
    /\ UNCHANGED <<now, ticks, env, refreshLocks, rot, requests>>

\* Time passes.
Tick ==
    /\ ticks < MaxTicks
    /\ ticks' = ticks + 1
    /\ now' = now + 30
    /\ UNCHANGED <<env, cookie, refreshLocks, rot, caller, requests>>

----------------------------------------------------------------------------
(* The inputs *)

Accounts ==
    {[present |-> TRUE, access_token |-> "at1", refresh_token |-> "rt1",
      expires_at |-> NumV(1010)],
     [present |-> TRUE, access_token |-> "at1", refresh_token |-> Undefined,
      expires_at |-> UndefV]}

\* The JSON bodies of success responses of the token endpoint; a body can
\* have members the code does not read, such as a sub.
Bodies ==
    {[access_token |-> "at2", refresh_token |-> Undefined, expires_in |-> NumV(300),
      sub |-> Undefined],
     [access_token |-> "at2", refresh_token |-> "rt2", expires_in |-> NumV(30),
      sub |-> "u2"],
     [access_token |-> "at2", refresh_token |-> "rt2", expires_in |-> UndefV,
      sub |-> Undefined],
     [access_token |-> "at2", refresh_token |-> Undefined, expires_in |-> NumV(0),
      sub |-> Undefined]}

Envs ==
    {[issuer |-> TRUE, clientId |-> TRUE, clientSecret |-> TRUE],
     [issuer |-> FALSE, clientId |-> TRUE, clientSecret |-> TRUE],
     [issuer |-> TRUE, clientId |-> FALSE, clientSecret |-> TRUE],
     [issuer |-> TRUE, clientId |-> TRUE, clientSecret |-> FALSE]}

\* The session cookies at the start: expired, inside the window, fresh until
\* the clock advances, without refresh token, without expiry, and with a
\* textual expiry and no sub.
StartTokens ==
    {Token("at1", "rt1", NumV(990), Undefined, "u1"),
     Token("at1", "rt1", NumV(1050), Undefined, "u1"),
     Token("at1", "rt1", NumV(1090), Undefined, "u1"),
     Token("at1", Undefined, NumV(990), Undefined, "u1"),
     Token("at1", "rt1", UndefV, Undefined, "u1"),
     Token("at1", "rt1", StrV(<<"9", "9", "0">>), Undefined, Undefined)}

\* One browser session, "A".
OneSession == [{"A"} -> StartTokens]

\* The probe variables while no callback is being probed.
NoShouldRefresh == [expiresAt |-> UndefV, clock |-> 0, done |-> FALSE]
NoRedirect == [url |-> <<>>, baseUrl |-> <<>>, appUrlEnv |-> <<>>, done |-> FALSE]
NoSessionCall == [token |-> NoToken,
                  session |-> [top |-> EmptyObject, hasUser |-> FALSE,
                               user |-> EmptyObject],
                  done |-> FALSE]

----------------------------------------------------------------------------
(* scripts/gensecret.ts: the functions                                       *)
(*                                                                          *)
(* An env file is a function from the keys it assigns to the text after the *)
(* equals sign; comments, blank lines and the order of the lines are left   *)
(* out. The values of an EnvMap are texts, as sequences of characters.      *)

EndsWith(s, suffix) ==
    Len(suffix) <= Len(s) /\ SubSeq(s, Len(s) - Len(suffix) + 1, Len(s)) = suffix

\* s.includes(part)
Includes(s, part) ==
    \E i \in 0..(Len(s) - Len(part)) : SubSeq(s, i + 1, i + Len(part)) = part

DoubleQuote == <<"\"">>
SingleQuote == <<"'">>

\* parseEnv, lines 499-506: the value of a line, trimmed, and without one
\* pair of enclosing quotes.
ParseEnvValue(raw) ==
    LET value == Trim(raw) IN
    IF \/ StartsWith(value, DoubleQuote) /\ EndsWith(value, DoubleQuote)
       \/ StartsWith(value, SingleQuote) /\ EndsWith(value, SingleQuote)
    THEN SubSeq(value, 2, Len(value) - 1)
    ELSE value

EmptyFile == [k \in {} |-> <<>>]

parseEnv(content) == [k \in DOMAIN content |-> ParseEnvValue(content[k])]

\* renderEnvFromTemplate: the lines of the template that assign a key of
\* values become key=value, and the other keys of values are appended.
renderEnvFromTemplate(template, values) ==
    [k \in DOMAIN template \cup DOMAIN values |->
        IF k \in DOMAIN values THEN values[k] ELSE template[k]]

ChangeInProduction == <<"c", "h", "a", "n", "g", "e", "-", "i", "n", "-", "p", "r", "o", "d", "u", "c", "t", "i", "o", "n">>

DevSecretChangeInProduction == <<"d", "e", "v", "-", "s", "e", "c", "r", "e", "t", "-", "c", "h", "a", "n", "g", "e", "-", "i", "n", "-", "p", "r", "o", "d", "u", "c", "t", "i", "o", "n">>

isPlaceholderAuthSecret(value) ==
    LET v == Trim(value) IN
    v = <<>> \/ Includes(v, ChangeInProduction)

isPlaceholderSecret(value) ==
    LET v == Trim(value) IN
    v = <<>> \/ Includes(v, DevSecretChangeInProduction)

\* s.split(ch).filter(Boolean): the non-empty pieces of s between ch.
RECURSIVE SplitNonEmpty(_, _)
SplitNonEmpty(s, ch) ==
    IF s = <<>> THEN <<>>
    ELSE LET i == IndexOf(s, ch) IN
         IF i = 0 THEN <<s>>
         ELSE IF i = 1 THEN SplitNonEmpty(Tail(s), ch)
         ELSE <<SubSeq(s, 1, i - 1)>> \o SplitNonEmpty(SubSeq(s, i + 1, Len(s)), ch)

\* new URL(url).pathname for a url that has an origin: from the first slash
\* after the authority to the query or fragment.
Pathname(url) ==
    LET c == IndexOf(url, ":")
        rest == SubSeq(url, c + 3, Len(url))
        slash == IndexOf(rest, "/")
        path == IF slash = 0 THEN <<>> ELSE SubSeq(rest, slash, Len(rest))
        ends == {i \in 1..Len(path) : path[i] \in {"?", "#"}}
    IN  IF ends = {} THEN path
        ELSE SubSeq(path, 1, (CHOOSE i \in ends : \A j \in ends : i <= j) - 1)

Realms == <<"r", "e", "a", "l", "m", "s">>

NoRealm == <<>>

\* parseRealmFromIssuer: the path segment after "realms", NoRealm for null.
parseRealmFromIssuer(issuer) ==
    IF ~Origin(issuer).valid THEN NoRealm
    ELSE LET parts == SplitNonEmpty(Pathname(issuer), "/")
             at == {i \in 1..Len(parts) : parts[i] = Realms}
         IN  IF at = {} THEN NoRealm
             ELSE LET idx == CHOOSE i \in at : \A j \in at : i <= j IN
                  IF idx + 1 <= Len(parts) THEN parts[idx + 1] ELSE NoRealm

\* fetchKeycloakClientSecret, lines 571-579: whether the function goes on to
\* its first request.
IssuerUsable(issuer) ==
    Origin(issuer).valid /\ parseRealmFromIssuer(issuer) # NoRealm

\* The values map of lines 663-664: the template values, overridden by the
\* values of the existing file.
MergeValues(templateValues, existingValues) ==
    [k \in DOMAIN templateValues \cup DOMAIN existingValues |->
        IF k \in DOMAIN existingValues THEN existingValues[k] ELSE templateValues[k]]

\* values.get(key) ?? fallback
GetOr(values, key, fallback) == IF key \in DOMAIN values THEN values[key] ELSE fallback

\* values.set(key, value)
SetValue(values, key, value) ==
    [k \in DOMAIN values \cup {key} |-> IF k = key THEN value ELSE values[k]]

\* Lines 668-672: AUTH_SECRET is generated afresh or kept.
WithAuthSecret(values, force, generated) ==
    IF force \/ isPlaceholderAuthSecret(GetOr(values, "AUTH_SECRET", <<>>))
    THEN SetValue(values, "AUTH_SECRET", generated)
    ELSE values

\* Line 678: whether the client secret is fetched from Keycloak.
WantsClientSecret(values, syncKeycloakSecret) ==
    /\ \/ syncKeycloakSecret
       \/ isPlaceholderSecret(GetOr(values, "KEYCLOAK_CLIENT_SECRET", <<>>))
    /\ GetOr(values, "KEYCLOAK_ISSUER", <<>>) # <<>>

\* Lines 689-692: a fetched secret that is not empty is stored; <<>> is null.
WithClientSecret(values, fetchedSecret) ==
    IF fetchedSecret # <<>>
    THEN SetValue(values, "KEYCLOAK_CLIENT_SECRET", fetchedSecret)
    ELSE values

\* The body of an answer of GET /api/auth/session: JSON null, or an object
\* with the properties of a session.
NullBody == [isNull |-> TRUE, session |-> NoSessionCall.session]
ObjectBody(session) == [isNull |-> FALSE, session |-> session]

\* What a call of getSession settled with: null, a session, or a rejection.
NullSession == [kind |-> "null", session |-> NoSessionCall.session]
SomeSession(session) == [kind |-> "session", session |-> session]
RejectedSession == [kind |-> "rejected", session |-> NoSessionCall.session]

\* Where the router went: nowhere yet, into the route, or to another route.
NoNav == [to |-> "", redirect |-> ""]

\* The single-page application at rest: no route is being loaded.
NoClient == [pc |-> "idle", location |-> "", answer |-> "none", body |-> NullBody,
             got |-> NullSession, nav |-> NoNav]

\* auth-service/.env.example as the design document lists its keys, with the
\* secrets left empty.
TemplateFile ==
    [k \in {"AUTH_SECRET", "KEYCLOAK_ISSUER", "KEYCLOAK_CLIENT_ID",
            "KEYCLOAK_CLIENT_SECRET"} |->
        CASE k = "KEYCLOAK_ISSUER" -> <<"h", "t", "t", "p", ":", "/", "/", "l", "o", "c", "a", "l", "h", "o", "s", "t", ":", "8", "0", "8", "0", "/", "r", "e", "a", "l", "m", "s", "/", "s", "h", "a", "d", "c", "n", "-", "a", "d", "m", "i", "n">>
          [] k = "KEYCLOAK_CLIENT_ID" -> <<"s", "h", "a", "d", "c", "n", "-", "a", "d", "m", "i", "n", "-", "w", "e", "b">>
          [] OTHER -> <<>>]

\* A run of gensecret that has not started: the files on disk (template,
\* envFile), the arguments, the values map, the secret fetched (<<>> for null),
\* how the fetch ended, and the exit code (-1 while running).
NoGen == [pc |-> "idle",
          template |-> [present |-> TRUE, file |-> TemplateFile],
          existing |-> EmptyFile, envFile |-> EmptyFile,
          force |-> FALSE, sync |-> FALSE,
          values |-> EmptyFile, fetched |-> <<>>, fetch |-> "none", code |-> -1]

Fetches == 1..MaxFetches

\* A call of fetchSession that has not been made: since is the number of
\* resets that had run when the call started, answer how its session request
\* ended, got what its getSession returned.
NoFetch == [pc |-> "idle", since |-> 0, answer |-> "none", got |-> NullSession]

\* auth-store.ts lines 15-16: the store as created, session null and isLoading
\* true; resets counts the calls of reset, writer is the call of fetchSession
\* that last wrote the session (0: none since the store was created or reset).
NoStore == [session |-> NullSession, isLoading |-> TRUE, resets |-> 0,
            writer |-> 0, call |-> [f \in Fetches |-> NoFetch]]

ToolsIdle == client = NoClient /\ gen = NoGen /\ store = NoStore

toolVars == <<client, gen, store>>

ProbesIdle ==
    /\ srIn = NoShouldRefresh /\ srOut = FALSE
    /\ rdIn = NoRedirect /\ rdOut = <<>>
    /\ seIn = NoSessionCall /\ seOut = NoSessionCall.session
    /\ ToolsIdle

probeVars == <<srIn, srOut, rdIn, rdOut, seIn, seOut, toolVars>>

serviceVars == <<now, ticks, env, cookie, refreshLocks, rot, caller, requests>>

ServiceInit(envs, startCookies) ==
    /\ now = 1000
    /\ ticks = 0
    /\ env \in envs
    /\ cookie \in startCookies
    /\ refreshLocks = [k \in {} |-> 0]
    /\ rot = [c \in Callers |-> NoRotation]
    /\ caller = [c \in Callers |-> IdleCaller]
    /\ requests = {}

Init == ServiceInit(Envs, OneSession) /\ ProbesIdle

Next ==
    \/ \E c \in Callers, s \in DOMAIN cookie, a \in Accounts \cup {NoAccount} :
         Arrive(c, s, a) /\ UNCHANGED probeVars
    \/ \E c \in Callers : Jwt(c) /\ UNCHANGED probeVars
    \/ \E p \in Callers, ok \in BOOLEAN : FetchResponds(p, ok) /\ UNCHANGED probeVars
    \/ \E p \in Callers : FetchThrows(p) /\ UNCHANGED probeVars
    \/ \E p \in Callers, b \in Bodies : JsonResolves(p, b) /\ UNCHANGED probeVars
    \/ \E p \in Callers : JsonThrows(p) /\ UNCHANGED probeVars
    \/ \E p \in Callers : ThenFinally(p) /\ UNCHANGED probeVars
    \/ \E c \in Callers : Resume(c) /\ UNCHANGED probeVars
    \/ Tick /\ UNCHANGED probeVars

Spec == Init /\ [][Next]_vars

\* The service in a deployment where KEYCLOAK_ISSUER, KEYCLOAK_CLIENT_ID and
\* KEYCLOAK_CLIENT_SECRET are all set.
ConfiguredEnv == [issuer |-> TRUE, clientId |-> TRUE, clientSecret |-> TRUE]

InitConfigured == ServiceInit({ConfiguredEnv}, OneSession) /\ ProbesIdle

SpecConfigured == InitConfigured /\ [][Next]_vars

----------------------------------------------------------------------------
(* shouldRefreshToken on its own: every expiresAt of a bounded set, at two   *)
(* clock readings                                                           *)

ExpiryNumbers == {-61, -60, -1, 0, 1, 59, 60, 61, 999, 1059, 1060, 1061, 2000}

ExpiryTexts ==
    {NumberToString(NumV(n)) : n \in ExpiryNumbers}
    \cup {<<>>, <<" ">>, <<"a">>, <<"1", "a">>, <<"-">>, <<"N", "a", "N">>,
          <<" ", "6", "1", " ">>, <<"+", "6", "0">>, <<"0", "6", "0">>}

Expiries ==
    {NumV(n) : n \in ExpiryNumbers} \cup {StrV(t) : t \in ExpiryTexts}
    \cup {UndefV, NaNV}

Clocks == {0, 1000}

ServiceIdle ==
    ServiceInit({ConfiguredEnv},
                [{"A"} -> {Token("at1", "rt1", NumV(1090), Undefined, "u1")}])

InitShouldRefresh ==
    /\ ServiceIdle
    /\ ToolsIdle
    /\ srIn \in [expiresAt : Expiries, clock : Clocks, done : {FALSE}]
    /\ srOut = FALSE
    /\ rdIn = NoRedirect /\ rdOut = <<>>
    /\ seIn = NoSessionCall /\ seOut = NoSessionCall.session

CallShouldRefresh ==
    /\ ~srIn.done
    /\ srOut' = shouldRefreshToken(Token("at1", "rt1", srIn.expiresAt, Undefined, "u1"),
                                   srIn.clock)
    /\ srIn' = [srIn EXCEPT !.done = TRUE]
    /\ UNCHANGED <<serviceVars, rdIn, rdOut, seIn, seOut, toolVars>>

NextShouldRefresh == CallShouldRefresh

SpecShouldRefresh == InitShouldRefresh /\ [][NextShouldRefresh]_vars

----------------------------------------------------------------------------
(* callbacks.session on its own *)

SessionTokens ==
    [accessToken : {"at1", Undefined}, refreshToken : {"rt1", Undefined},
     expiresAt : {NumV(990), NumV(2000)},
     error : {Undefined, REFRESH_TOKEN_ERROR}, sub : {"u1", "", Undefined}]

\* The session objects Auth.js passes: expires, and user with the profile
\* fields when the token has them.
SessionObjects ==
    {[top |-> [k \in {"expires"} |-> "2026-12-03"], hasUser |-> FALSE,
      user |-> EmptyObject],
     [top |-> [k \in {"expires"} |-> "2026-12-03"], hasUser |-> TRUE,
      user |-> EmptyObject],
     [top |-> [k \in {"expires"} |-> "2026-12-03"], hasUser |-> TRUE,
      user |-> [k \in {"name", "email"} |-> IF k = "name" THEN "Ann" ELSE "ann@example.com"]]}

InitSession ==
    /\ ServiceIdle
    /\ ToolsIdle
    /\ seIn \in [token : SessionTokens, session : SessionObjects, done : {FALSE}]
    /\ seOut = NoSessionCall.session
    /\ srIn = NoShouldRefresh /\ srOut = FALSE
    /\ rdIn = NoRedirect /\ rdOut = <<>>

CallSession ==
    /\ ~seIn.done
    /\ seOut' = sessionCallback(seIn.session, seIn.token)
    /\ seIn' = [seIn EXCEPT !.done = TRUE]
    /\ UNCHANGED <<serviceVars, srIn, srOut, rdIn, rdOut, toolVars>>

NextSession == CallSession

SpecSession == InitSession /\ [][NextSession]_vars

----------------------------------------------------------------------------
(* callbacks.redirect on its own *)

ExampleAppUrl == <<"h", "t", "t", "p", "s", ":", "/", "/", "a", "p", "p", ".", "e", "x", "a", "m", "p", "l", "e", ".", "c", "o", "m">>

\* AUTH_URL || `http://localhost:${port}` with the default port 5174
BaseUrl == <<"h", "t", "t", "p", ":", "/", "/", "l", "o", "c", "a", "l", "h", "o", "s", "t", ":", "5", "1", "7", "4">>

SuffixChars == {"/", ".", ":", "@", "0", "e"}

RECURSIVE Suffixes(_)
Suffixes(n) ==
    IF n = 0 THEN {<<>>}
    ELSE Suffixes(n - 1)
         \cup {Append(t, ch) : t \in {u \in Suffixes(n - 1) : Len(u) = n - 1},
                               ch \in SuffixChars}

OtherUrls ==
    {<<"/", "s", "e", "t", "t", "i", "n", "g", "s">>,
     <<"/", "/", "e", "/", "x">>,
     <<"/", "/", "e", "v", "i", "l", ".", "e", "x", "a", "m", "p", "l", "e", ".", "c", "o", "m", "/", "x">>,
     <<"j", "a", "v", "a", "s", "c", "r", "i", "p", "t", ":", "a", "l", "e", "r", "t", "(", "1", ")">>,
     <<"h", "t", "t", "p", "s", ":", "/", "/", "e", "v", "i", "l", ".", "e", "x", "a", "m", "p", "l", "e", ".", "c", "o", "m", "/", "x">>,
     <<"h", "t", "t", "p", "s", ":", "/", "/", "a", "p", "p", ".", "e", "x", "a", "m", "p", "l", "e", ".", "c", "o", "m", "/", "d", "a", "s", "h", "b", "o", "a", "r", "d">>,
     <<"h", "t", "t", "p", "s", ":", "/", "/", "a", "p", "p", ".", "e", "x", "a", "m", "p", "l", "e", ".", "c", "o", "m", ".", "e", "v", "i", "l", ".", "e", "x", "a", "m", "p", "l", "e", "/", "x">>,
     <<"h", "t", "t", "p", ":", "/", "/", "l", "o", "c", "a", "l", "h", "o", "s", "t", ":", "5", "1", "7", "4", "/", "x">>}

AppUrlEnvs == {<<>>, ExampleAppUrl}

RedirectUrls(appUrlEnv) ==
    {AppUrl(appUrlEnv) \o t : t \in Suffixes(MaxSuffixLen)} \cup OtherUrls

InitRedirect ==
    /\ ServiceIdle
    /\ ToolsIdle
    /\ \E e \in AppUrlEnvs : \E u \in RedirectUrls(e) :
         rdIn = [url |-> u, baseUrl |-> BaseUrl, appUrlEnv |-> e, done |-> FALSE]
    /\ rdOut = <<>>
    /\ srIn = NoShouldRefresh /\ srOut = FALSE
    /\ seIn = NoSessionCall /\ seOut = NoSessionCall.session

CallRedirect ==
    /\ ~rdIn.done
    /\ rdOut' = redirect(rdIn.url, rdIn.baseUrl, rdIn.appUrlEnv)
    /\ rdIn' = [rdIn EXCEPT !.done = TRUE]
    /\ UNCHANGED <<serviceVars, srIn, srOut, seIn, seOut, toolVars>>

NextRedirect == CallRedirect

SpecRedirect == InitRedirect /\ [][NextRedirect]_vars

----------------------------------------------------------------------------
(* The claims *)

\* The invocations that returned the promise of rotation p.
Joined(p) ==
    {c \in Callers : caller[c].pc \in {"waiting", "done"} /\ caller[c].await = p}

RequestsBy(p) == {r \in requests : r.by = p}

\* C1: when two or more invocations present the same stale token while the
\* rotation for its key is in flight, exactly one request is made to the token
\* endpoint and every one of them resolves to the same token.
C1_OneExchangeOneToken ==
    \A p \in Callers :
        Cardinality(Joined(p)) >= 2 =>
            /\ Cardinality(RequestsBy(p)) = 1
            /\ \A c \in Joined(p) :
                 caller[c].pc = "done" => caller[c].result.kind = "token"
            /\ \A c, d \in Joined(p) :
                 caller[c].pc = "done" /\ caller[d].pc = "done"
                     => caller[c].result = caller[d].result

\* C2: a transport failure of the exchange (fetch or response.json() rejects)
\* never leaves the jwt callback as a rejection: every invocation awaiting the
\* rotation receives a token marked RefreshTokenError.
C2_TransportFailureBecomesError ==
    \A c \in Callers :
        (/\ caller[c].pc = "done"
         /\ caller[c].await # 0
         /\ rot[caller[c].await].inner.kind = "rejected")
            => /\ caller[c].result.kind = "token"
               /\ caller[c].result.token.error = REFRESH_TOKEN_ERROR

\* C3: the error state is terminal: an invocation without account on a token
\* marked RefreshTokenError makes no request to the token endpoint and returns
\* a token that is still marked.
C3_ErrorIsTerminal ==
    \A c \in Callers :
        (/\ caller[c].pc \in {"waiting", "done"}
         /\ ~caller[c].account.present
         /\ caller[c].arg.error = REFRESH_TOKEN_ERROR)
            => /\ RequestsBy(c) = {}
               /\ (caller[c].pc = "done" /\ caller[c].result.kind = "token")
                      => caller[c].result.token.error = REFRESH_TOKEN_ERROR

\* The credentials a token holds.
Credentials(token) == {token.accessToken, token.refreshToken} \ {Undefined}

ObjectValues(obj) == {obj[k] : k \in DOMAIN obj}

\* C4: the session the session callback returns holds neither the accessToken
\* nor the refreshToken of the token, under any name: the callback adds only
\* error and user.id and leaves every other property as it was.
C4_SessionHoldsNoCredentials ==
    seIn.done =>
        /\ DOMAIN seOut.top \subseteq DOMAIN seIn.session.top \cup {"error"}
        /\ DOMAIN seOut.user \subseteq DOMAIN seIn.session.user \cup {"id"}
        /\ \A k \in DOMAIN seIn.session.top \ {"error"} :
             k \in DOMAIN seOut.top /\ seOut.top[k] = seIn.session.top[k]
        /\ \A k \in DOMAIN seIn.session.user \ {"id"} :
             k \in DOMAIN seOut.user /\ seOut.user[k] = seIn.session.user[k]
        /\ (ObjectValues(seOut.top) \cup ObjectValues(seOut.user))
               \cap Credentials(seIn.token) = {}

\* C4 witness: the callback has run on an error-marked token that holds both
\* credentials and a sub, and has surfaced error and user.id.
C4_Witness ==
    /\ seIn.done
    /\ seIn.token.accessToken = "at1" /\ seIn.token.refreshToken = "rt1"
    /\ seIn.token.error = REFRESH_TOKEN_ERROR /\ seIn.token.sub = "u1"
    /\ "error" \in DOMAIN seOut.top /\ seOut.hasUser /\ seOut.user["id"] = "u1"

SameOrigin(a, b) == Origin(a).valid /\ Origin(b).valid /\ Origin(a) = Origin(b)

\* C5: the redirect callback returns the requested url unchanged only if the
\* url is absolute with the origin of the application URL; an absolute url of
\* any other origin yields the application URL.
C5_RedirectSameOriginOnly ==
    rdIn.done =>
        LET appUrl == AppUrl(rdIn.appUrlEnv) IN
        /\ rdOut = rdIn.url => SameOrigin(rdIn.url, appUrl)
        /\ (Origin(rdIn.url).valid /\ ~SameOrigin(rdIn.url, appUrl))
               => rdOut = appUrl

\* A rotation whose exchange succeeded: refreshAccessToken returned line 55-63.
Succeeded(p) ==
    /\ rot[p].phase \in {"inner", "settled"}
    /\ rot[p].inner.kind = "token"
    /\ rot[p].inner.token.error = Undefined

\* C6 as stated: after a successful rotation whose response has expires_in > 0
\* the new expiresAt is strictly greater than the expiresAt of the rotated token.
C6_ExpiryStrictlyGrows ==
    \A p \in Callers :
        (/\ Succeeded(p)
         /\ rot[p].body.expires_in.kind = "number"
         /\ rot[p].body.expires_in.num > 0)
            => rot[p].inner.token.expiresAt.num > Number(rot[p].token.expiresAt).num

\* C6 amended: after a successful rotation whose response has expires_in
\* greater than the refresh window of 60 seconds (or omits it, which gives
\* 3600), the new expiresAt is strictly greater than that of the rotated token.
C6_ExpiryGrowsBeyondWindow ==
    \A p \in Callers :
        (/\ Succeeded(p)
         /\ ExpiresInOrDefault(rot[p].body.expires_in) > REFRESH_TOKEN_WINDOW_SECONDS)
            => rot[p].inner.token.expiresAt.num > Number(rot[p].token.expiresAt).num

\* C6 witness: a token still inside the window (expiry 1050 at second 1000 or
\* 1030) was rotated with expires_in = 300 and the rotation has settled.
C6_Witness ==
    \E p \in Callers :
        /\ Succeeded(p) /\ rot[p].phase = "settled"
        /\ rot[p].token.expiresAt = NumV(1050)
        /\ rot[p].body.expires_in = NumV(300)

\* C7: for every expiresAt that is a valid number, shouldRefreshToken is TRUE
\* exactly when now >= expiresAt - 60.
C7_WindowDecision ==
    (srIn.done /\ srIn.expiresAt.kind = "number")
        => (srOut <=> srIn.clock >= srIn.expiresAt.num - REFRESH_TOKEN_WINDOW_SECONDS)

\* A text that is a decimal numeral, white space around it allowed.
IsNumeral(s) ==
    \/ AllDigits(s)
    \/ (s # <<>> /\ Head(s) \in {"-", "+"} /\ AllDigits(Tail(s)))

NotAValidNumber(v) ==
    \/ v.kind \in {"undefined", "NaN"}
    \/ (v.kind = "string" /\ ~IsNumeral(Trim(v.str)))

\* C8: for every expiresAt that is absent or not a valid number (undefined,
\* empty, non-numeric text) shouldRefreshToken is FALSE.
C8_InvalidExpiryNeverRefreshes ==
    (srIn.done /\ NotAValidNumber(srIn.expiresAt)) => srOut = FALSE

\* C9: for every number n, shouldRefreshToken gives for expiresAt = n what it
\* gives for expiresAt = the decimal text of n, at the same clock reading.
C9_NumberAndTextAgree ==
    (srIn.done /\ srIn.expiresAt.kind = "number")
        => srOut = shouldRefreshToken(
                       Token("at1", "rt1", StrV(NumberToString(srIn.expiresAt)),
                             Undefined, "u1"),
                       srIn.clock)

\* A rotation whose refreshPromise has not settled.
InFlight(p) == rot[p].phase \in {"fetch", "json", "inner"}

\* C10: the registry never has two rotations in flight for one lock key, and
\* while the exchange of a rotation is in flight the registry holds that
\* rotation under its key.
C10_OneRotationPerKey ==
    /\ \A p, q \in Callers :
         (p # q /\ InFlight(p) /\ InFlight(q)) => rot[p].key # rot[q].key
    /\ \A p \in Callers :
         InFlight(p) => Existing(refreshLocks, rot[p].key) = p

\* C10 witness: an exchange is in flight and a second invocation with the same
\* key has found the entry and awaits the same rotation.
C10_Witness ==
    \E p, c \in Callers :
        /\ c # p /\ rot[p].phase = "fetch"
        /\ caller[c].pc = "waiting" /\ caller[c].await = p
        /\ LockKey(caller[c].arg) = rot[p].key

\* C11: when a rotation has settled (with a refreshed token, with an
\* error-marked token or by rejection) the registry no longer holds it, and no
\* invocation that awaited it has completed while the registry still held it;
\* so when no rotation is in flight the registry is empty, also for a rotation
\* that settled without a request (configuration missing).
C11_SettledEntryRemoved ==
    /\ \A p \in Callers :
         rot[p].phase = "settled" => Existing(refreshLocks, rot[p].key) # p
    /\ \A c \in Callers :
         (caller[c].pc = "done" /\ caller[c].await # 0)
             => Existing(refreshLocks, rot[caller[c].await].key) # caller[c].await
    /\ (\A p \in Callers : ~InFlight(p)) => DOMAIN refreshLocks = {}

\* C11 witness: with the configuration missing a rotation settled without a
\* request, two invocations that awaited it have completed, and the registry
\* is empty.
C11_Witness ==
    \E p \in Callers :
        /\ ~EnvConfigured(env)
        /\ rot[p].phase = "settled" /\ RequestsBy(p) = {}
        /\ Cardinality({c \in Joined(p) : caller[c].pc = "done"}) = 2
        /\ DOMAIN refreshLocks = {}

\* C12: after a success response the resulting token has the access_token of
\* the response as accessToken, no error flag, and as refreshToken the
\* refresh_token of the response when the response has one and the
\* refreshToken of the rotated token otherwise.
C12_SuccessFields ==
    \A p \in Callers :
        Succeeded(p) =>
            LET new == IF rot[p].phase = "settled" THEN rot[p].out.token
                       ELSE rot[p].inner.token
            IN
            /\ new.accessToken = rot[p].body.access_token
            /\ new.error = Undefined
            /\ new.refreshToken = IF rot[p].body.refresh_token # Undefined
                                  THEN rot[p].body.refresh_token
                                  ELSE rot[p].token.refreshToken

\* C12 witness: the token with refreshToken rt1 was rotated with the response
\* {access_token: at2, expires_in: 300} and the invocation completed with
\* accessToken at2 and refreshToken rt1.
C12_Witness ==
    \E p \in Callers :
        /\ rot[p].phase = "settled" /\ Succeeded(p)
        /\ rot[p].token.refreshToken = "rt1"
        /\ rot[p].body = [access_token |-> "at2", refresh_token |-> Undefined,
                          expires_in |-> NumV(300), sub |-> Undefined]
        /\ caller[p].pc = "done"
        /\ caller[p].result.token.accessToken = "at2"
        /\ caller[p].result.token.refreshToken = "rt1"

\* C13: after a success response the new expiresAt is the epoch second at
\* which the response was read plus expires_in, and that second plus 3600 when
\* the response has no expires_in.
C13_ExpiryIsClockPlusExpiresIn ==
    \A p \in Callers :
        Succeeded(p) =>
            rot[p].inner.token.expiresAt =
                NumV(rot[p].at + (IF rot[p].body.expires_in = UndefV
                                  THEN DefaultExpiresIn
                                  ELSE rot[p].body.expires_in.num))

\* The token endpoint answered the request of rotation p with a non-success
\* status: a request was sent, no body was read, and the call returned a token.
NonSuccessStatus(p) ==
    /\ rot[p].phase \in {"inner", "settled"}
    /\ RequestsBy(p) # {}
    /\ rot[p].body = NoBody
    /\ rot[p].inner.kind = "token"

\* C14: after a non-success status the resulting token has error =
\* RefreshTokenError and the rotation made exactly one request; and every
\* rotation that has settled ended in a token, which either is a refreshed
\* token without error flag or carries the error flag.
C14_FailureMarksErrorOnce ==
    \A p \in Callers :
        /\ NonSuccessStatus(p) =>
              /\ rot[p].inner.token.error = REFRESH_TOKEN_ERROR
              /\ Cardinality(RequestsBy(p)) = 1
        /\ rot[p].phase = "settled" =>
              /\ rot[p].out.kind = "token"
              /\ rot[p].out.token.error \in {Undefined, REFRESH_TOKEN_ERROR}
              /\ rot[p].out.token.error = Undefined <=> rot[p].body # NoBody

\* C15: a jwt invocation on a stale token without refreshToken completes in
\* the same step with the token marked RefreshTokenError (its other fields
\* kept), sends no request and leaves the registry as it was.
C15_NoRefreshTokenIsErrorAtOnce ==
    [][\A c \in Callers :
         (/\ caller[c].pc = "arrived" /\ caller'[c].pc # "arrived"
          /\ ~caller[c].account.present
          /\ shouldRefreshToken(caller[c].arg, now)
          /\ caller[c].arg.refreshToken \in {Undefined, ""})
             => /\ caller'[c].pc = "done"
                /\ caller'[c].result =
                     Fulfilled([caller[c].arg EXCEPT !.error = REFRESH_TOKEN_ERROR])
                /\ requests' = requests
                /\ refreshLocks' = refreshLocks
                /\ rot' = rot]_vars

\* C15 witness: the invocation on the expired token without refreshToken has
\* completed with the error flag, no request was sent and the registry is empty.
C15_Witness ==
    \E c \in Callers :
        /\ caller[c].pc = "done" /\ ~caller[c].account.present
        /\ caller[c].arg.refreshToken = Undefined
        /\ caller[c].arg.expiresAt = NumV(990)
        /\ caller[c].result.kind = "token"
        /\ caller[c].result.token.error = REFRESH_TOKEN_ERROR
        /\ requests = {} /\ DOMAIN refreshLocks = {}

\* C16: when KEYCLOAK_ISSUER, KEYCLOAK_CLIENT_ID or KEYCLOAK_CLIENT_SECRET is
\* not set, no request is ever sent, every rotation yields the rotated token
\* marked RefreshTokenError, every invocation that awaited the rotation
\* receives that one token, and the registry does not hold a settled rotation.
C16_MissingConfigurationIsError ==
    (~env.issuer \/ ~env.clientId \/ ~env.clientSecret) =>
        /\ requests = {}
        /\ \A p \in Callers :
             rot[p].phase # "none" =>
                 /\ rot[p].inner =
                      Fulfilled([rot[p].token EXCEPT !.error = REFRESH_TOKEN_ERROR])
                 /\ rot[p].phase = "settled" =>
                      /\ rot[p].out = rot[p].inner
                      /\ Existing(refreshLocks, rot[p].key) # p
        /\ \A c \in Callers :
             (caller[c].pc = "done" /\ caller[c].await # 0) =>
                 caller[c].result = rot[caller[c].await].inner

\* C16 witness: the issuer is not set, two invocations presented the same
\* stale token, both have completed with the error-marked token of the one
\* rotation, and the registry is empty.
C16_Witness ==
    \E p, c \in Callers :
        /\ ~env.issuer /\ c # p
        /\ rot[p].phase = "settled"
        /\ {p, c} \subseteq Joined(p)
        /\ caller[p].pc = "done" /\ caller[c].pc = "done"
        /\ caller[c].result.token.error = REFRESH_TOKEN_ERROR
        /\ caller[c].result = caller[p].result
        /\ requests = {} /\ DOMAIN refreshLocks = {}

\* C17: the token a rotation settles with, refreshed or error-marked, has the
\* sub of the token the rotation was started with, and the invocation that
\* started the rotation completes with the sub it presented.
C17_SubUnchanged ==
    \A p \in Callers :
        (rot[p].phase = "settled" /\ rot[p].out.kind = "token") =>
            /\ rot[p].out.token.sub = rot[p].token.sub
            /\ caller[p].pc = "done" =>
                 caller[p].result.token.sub = caller[p].arg.sub

\* C17 witness: one rotation of the session settled with an error-marked token
\* and another with a refreshed token from a response that names sub u2, and
\* both results carry sub u1.
C17_Witness ==
    \E p, q \in Callers :
        /\ rot[p].phase = "settled" /\ rot[q].phase = "settled"
        /\ rot[p].token.sub = "u1" /\ rot[q].token.sub = "u1"
        /\ rot[p].out.kind = "token" /\ rot[p].out.token.error = REFRESH_TOKEN_ERROR
        /\ rot[q].out.kind = "token" /\ rot[q].out.token.error = Undefined
        /\ rot[q].body.sub = "u2"
        /\ rot[p].out.token.sub = "u1" /\ rot[q].out.token.sub = "u1"

\* C18: a step of a jwt invocation on a stale token (its return without
\* refresh token, its start of or attachment to a rotation, its completion
\* with the outcome of the rotation) leaves every field of the object passed
\* as token as it was, and a token the invocation completes with is a new
\* object, never the object passed in.
C18_InputTokenNotMutated ==
    [][\A c \in Callers :
         (/\ ~caller[c].account.present
          /\ \/ caller[c].pc = "arrived" /\ shouldRefreshToken(caller[c].arg, now)
             \/ caller[c].pc = "waiting"
          /\ caller'[c].pc # caller[c].pc)
             => /\ caller'[c].arg = caller[c].arg
                /\ (caller'[c].pc = "done" /\ caller'[c].result.kind = "token")
                       => ~caller'[c].same]_vars

\* C18 witness: an invocation on a stale token has completed with a refreshed
\* token; the object passed in still has the fields the rotation was started
\* with, and the result differs from it.
C18_Witness ==
    \E c \in Callers :
        /\ caller[c].pc = "done" /\ ~caller[c].account.present
        /\ caller[c].await = c /\ Succeeded(c)
        /\ caller[c].arg = rot[c].token
        /\ caller[c].arg.accessToken = "at1" /\ caller[c].arg.error = Undefined
        /\ caller[c].result.kind = "token" /\ ~caller[c].same
        /\ caller[c].result.token.accessToken = "at2"

\* C19: the session the callback returns has the property error, with the
\* value RefreshTokenError, exactly when the error flag of the token is set,
\* and has user.id equal to the sub of the token whenever the token has one.
C19_SessionSurfacesErrorAndSub ==
    seIn.done =>
        /\ "error" \in DOMAIN seOut.top <=> seIn.token.error = REFRESH_TOKEN_ERROR
        /\ seIn.token.error = REFRESH_TOKEN_ERROR
               => seOut.top["error"] = "RefreshTokenError"
        /\ seIn.token.sub \notin {Undefined, ""}
               => /\ seOut.hasUser
                  /\ "id" \in DOMAIN seOut.user
                  /\ seOut.user["id"] = seIn.token.sub

\* C19 witness: the callback ran on a token with the error flag and sub u1 and
\* on a session without user; the session returned has error and user.id u1.
C19_Witness ==
    /\ seIn.done
    /\ seIn.token.error = REFRESH_TOKEN_ERROR /\ seIn.token.sub = "u1"
    /\ ~seIn.session.hasUser
    /\ seOut.top["error"] = "RefreshTokenError"
    /\ seOut.hasUser /\ seOut.user["id"] = "u1"

DashboardUrl == ExampleAppUrl \o <<"/", "d", "a", "s", "h", "b", "o", "a", "r", "d">>

EvilUrl == <<"h", "t", "t", "p", "s", ":", "/", "/", "e", "v", "i", "l", ".", "e", "x", "a", "m", "p", "l", "e", ".", "c", "o", "m", "/", "x">>

ScriptUrl == <<"j", "a", "v", "a", "s", "c", "r", "i", "p", "t", ":", "a", "l", "e", "r", "t", "(", "1", ")">>

SettingsPath == <<"/", "s", "e", "t", "t", "i", "n", "g", "s">>

\* C20: with APP_URL = https://app.example.com the redirect callback returns
\* https://app.example.com/dashboard unchanged, returns https://app.example.com
\* for https://evil.example.com/x and for javascript:alert(1), and returns the
\* base URL followed by /settings for /settings.
C20_RedirectExamples ==
    (rdIn.done /\ rdIn.appUrlEnv = ExampleAppUrl) =>
        /\ rdIn.url = DashboardUrl => rdOut = DashboardUrl
        /\ rdIn.url \in {EvilUrl, ScriptUrl} => rdOut = ExampleAppUrl
        /\ rdIn.url = SettingsPath => rdOut = rdIn.baseUrl \o SettingsPath

\* C20 witness: the callback ran on https://evil.example.com/x with APP_URL =
\* https://app.example.com and returned https://app.example.com.
C20_Witness ==
    /\ rdIn.done /\ rdIn.appUrlEnv = ExampleAppUrl
    /\ rdIn.url = EvilUrl
    /\ rdOut = ExampleAppUrl

ProtocolRelativeUrl == <<"/", "/">> \o SubSeq(EvilUrl, 9, Len(EvilUrl))

\* C21: the redirect callback returns the base URL followed by the url only
\* for a url that begins with one slash and not two; for a url that begins
\* with two slashes and does not start with the application URL it returns the
\* application URL.
C21_SingleSlashOnly ==
    rdIn.done =>
        LET appUrl == AppUrl(rdIn.appUrlEnv)
            twoSlashes == StartsWith(rdIn.url, <<"/", "/">>)
        IN
        /\ (rdOut = rdIn.baseUrl \o rdIn.url /\ rdOut # rdIn.url)
               => (StartsWith(rdIn.url, <<"/">>) /\ ~twoSlashes)
        /\ (twoSlashes /\ ~StartsWith(rdIn.url, appUrl)) => rdOut = appUrl

----------------------------------------------------------------------------
(* The single-page application: getSession (src/lib/auth-client.ts) and the  *)
(* guard of the protected routes (src/routes/_authenticated/route.tsx)       *)

\* A getSession that looks for the user only.
SessionOfBodyNoErrorCheck(body) ==
    IF body.isNull THEN NullSession
    ELSE IF ~body.session.hasUser THEN NullSession
    ELSE SomeSession(body.session)

\* getSession, lines 22-28: the body has been read. Reading session.user of
\* null throws a TypeError, which the catch block turns into null.
SessionOfBody(body) ==
    IF body.isNull THEN NullSession
    ELSE IF \/ ~body.session.hasUser
            \/ /\ "error" \in DOMAIN body.session.top
               /\ body.session.top["error"] = "RefreshTokenError"
         THEN NullSession
    ELSE SomeSession(body.session)

callbackVars == <<srIn, srOut, rdIn, rdOut, seIn, seOut>>

\* beforeLoad is called for location and calls getSession, which sends
\* GET /api/auth/session and suspends.
BeforeLoad(location) ==
    /\ client.pc = "idle"
    /\ client' = [client EXCEPT !.pc = "fetch", !.location = location]
    /\ UNCHANGED <<serviceVars, callbackVars, gen, store>>

\* getSession line 20-21: the answer arrives; a non-success status gives null.
SessionFetchResponds(ok) ==
    /\ client.pc = "fetch"
    /\ client' = IF ok THEN [client EXCEPT !.pc = "json"]
                 ELSE [client EXCEPT !.pc = "guard", !.answer = "status",
                                     !.got = NullSession]
    /\ UNCHANGED <<serviceVars, callbackVars, gen, store>>

\* getSession line 20, 26-28: fetch rejects and the catch block returns null.
SessionFetchThrows ==
    /\ client.pc = "fetch"
    /\ client' = [client EXCEPT !.pc = "guard", !.answer = "rejected",
                                !.got = NullSession]
    /\ UNCHANGED <<serviceVars, callbackVars, gen, store>>

\* getSession line 22-25: the body is read.
SessionJsonResolves(body) ==
    /\ client.pc = "json"
    /\ client' = [client EXCEPT !.pc = "guard", !.answer = "body", !.body = body,
                                !.got = SessionOfBody(body)]
    /\ UNCHANGED <<serviceVars, callbackVars, gen, store>>

\* getSession line 22, 26-28: res.json() rejects and the catch block returns null.
SessionJsonThrows ==
    /\ client.pc = "json"
    /\ client' = [client EXCEPT !.pc = "guard", !.answer = "badjson",
                                !.got = NullSession]
    /\ UNCHANGED <<serviceVars, callbackVars, gen, store>>

\* beforeLoad lines 7-14 after getSession settled: without session it throws
\* the redirect to /sign-in; a rejection of getSession would fail the load.
Guard ==
    /\ client.pc = "guard"
    /\ client' = IF client.got.kind = "null"
                 THEN [client EXCEPT !.pc = "redirected",
                                     !.nav = [to |-> "/sign-in",
                                              redirect |-> client.location]]
                 ELSE IF client.got.kind = "session"
                 THEN [client EXCEPT !.pc = "loaded"]
                 ELSE [client EXCEPT !.pc = "failed"]
    /\ UNCHANGED <<serviceVars, callbackVars, gen, store>>

\* location.href of the routes that are loaded.
Locations == {"/", "/settings", "/settings/account", "/users?page=2"}

\* The bodies the session endpoint answers with: null or {} without session,
\* and what the session callback returned otherwise.
SessionBodies ==
    {NullBody, ObjectBody(NoSessionCall.session)}
    \cup {ObjectBody(sessionCallback(o, t)) : o \in SessionObjects, t \in SessionTokens}

InitClient == ServiceIdle /\ ProbesIdle

NextClient ==
    \/ \E l \in Locations : BeforeLoad(l)
    \/ \E ok \in BOOLEAN : SessionFetchResponds(ok)
    \/ SessionFetchThrows
    \/ \E b \in SessionBodies : SessionJsonResolves(b)
    \/ SessionJsonThrows
    \/ Guard

SpecClient == InitClient /\ [][NextClient]_vars

\* The answer of the session endpoint is one with which the single-page
\* application has no valid session: non-success status, failed request or
\* body, no user, or the error RefreshTokenError.
InvalidAnswer ==
    \/ client.answer \in {"status", "rejected", "badjson"}
    \/ /\ client.answer = "body"
       /\ \/ client.body.isNull
          \/ ~client.body.session.hasUser
          \/ /\ "error" \in DOMAIN client.body.session.top
             /\ client.body.session.top["error"] = "RefreshTokenError"

\* C22: whenever the answer of the session endpoint is non-success, has no
\* user, carries error = RefreshTokenError, or the request fails, getSession
\* settles with null (it does not reject), and the guard then leaves the route
\* unloaded and redirects to /sign-in with redirect = the current location; a
\* route is loaded only with a session that has a user and no error.
C22_ErrorSessionNotAuthenticated ==
    /\ client.got.kind # "rejected"
    /\ client.pc # "failed"
    /\ (client.pc \in {"guard", "redirected", "loaded"} /\ InvalidAnswer) =>
          /\ client.got = NullSession
          /\ client.pc # "loaded"
          /\ client.pc = "redirected" =>
                client.nav = [to |-> "/sign-in", redirect |-> client.location]
    /\ client.pc = "loaded" =>
          /\ client.got.kind = "session"
          /\ client.got.session.hasUser
          /\ "error" \notin DOMAIN client.got.session.top

\* C22 witness: the session endpoint answered with a session that has a user
\* and error = RefreshTokenError, and the guard redirected the load of
\* /settings to /sign-in with redirect = /settings.
C22_Witness ==
    /\ client.pc = "redirected"
    /\ client.answer = "body" /\ ~client.body.isNull
    /\ client.body.session.hasUser
    /\ "error" \in DOMAIN client.body.session.top
    /\ client.location = "/settings"
    /\ client.nav = [to |-> "/sign-in", redirect |-> "/settings"]

----------------------------------------------------------------------------
(* scripts/gensecret.ts: a run of the script *)

\* How a request of fetchKeycloakClientSecret goes on: fetch rejecting
\* (.catch(() => null)), a non-success status, a body that is not JSON and a
\* body without the member all return null.
AfterAnswer(outcome) == IF outcome = "ok" THEN "next" ELSE "null"

FetchOutcomes == {"rejected", "status", "badjson", "nofield", "ok"}

\* Lines 695-699: the file is rendered and written, and the script ends.
Finish(g, values) ==
    [g EXCEPT !.pc = "exited", !.code = 0, !.values = values,
              !.envFile = renderEnvFromTemplate(g.template.file, values)]

\* An exception that nothing catches ends the script before it writes.
Abort(g) == [g EXCEPT !.pc = "aborted", !.code = 1]

\* The script runs up to its first suspension: lines 636-693, and lines
\* 695-712 when no secret is to be fetched.
GenStart(force, sync, generated) ==
    /\ gen.pc = "idle"
    /\ gen' =
         IF ~gen.template.present
         THEN [gen EXCEPT !.pc = "exited", !.code = 1,
                          !.force = force, !.sync = sync]
         ELSE
           LET g == [gen EXCEPT !.force = force, !.sync = sync]
               values == WithAuthSecret(MergeValues(parseEnv(gen.template.file),
                                                    parseEnv(gen.envFile)),
                                        force, generated)
           IN  IF ~WantsClientSecret(values, sync) THEN Finish(g, values)
               ELSE IF IssuerUsable(GetOr(values, "KEYCLOAK_ISSUER", <<>>))
               THEN [g EXCEPT !.pc = "token", !.values = values]
               ELSE [g EXCEPT !.pc = "resume", !.values = values,
                              !.fetch = "issuer"]
    /\ UNCHANGED <<serviceVars, callbackVars, client, store>>

AnswerStep(pc, next, outcome) ==
    /\ gen.pc = pc
    /\ gen' = CASE AfterAnswer(outcome) = "next" -> [gen EXCEPT !.pc = next]
                [] AfterAnswer(outcome) = "null" ->
                     [gen EXCEPT !.pc = "resume", !.fetch = outcome]
                [] OTHER -> Abort(gen)
    /\ UNCHANGED <<serviceVars, callbackVars, client, store>>

\* Lines 581-600: the admin token request.
AdminTokenAnswer(outcome) == AnswerStep("token", "clients", outcome)

\* Lines 602-617: the lookup of the client; no member means no such client.
ClientsAnswer(outcome) == AnswerStep("clients", "secret", outcome)

\* Lines 619-633: the request of the client secret; value is the member value
\* of the body.
ClientSecretAnswer(outcome, value) ==
    /\ gen.pc = "secret"
    /\ gen' = CASE AfterAnswer(outcome) = "next" ->
                     [gen EXCEPT !.pc = "resume", !.fetched = value, !.fetch = "ok"]
                [] AfterAnswer(outcome) = "null" ->
                     [gen EXCEPT !.pc = "resume", !.fetch = outcome]
                [] OTHER -> Abort(gen)
    /\ UNCHANGED <<serviceVars, callbackVars, client, store>>

\* Lines 689-712, after fetchKeycloakClientSecret settled.
GenResume ==
    /\ gen.pc = "resume"
    /\ gen' = Finish(gen, WithClientSecret(gen.values, gen.fetched))
    /\ UNCHANGED <<serviceVars, callbackVars, client, store>>

\* The inputs: what randomBytes gives, what Keycloak answers, and the files.
GeneratedSecrets == {<<"g", "1", "+", "/", "A", "=">>, <<"g", "2", "+", "/", "B", "=">>}

FetchedSecrets == {<<"k", "2">>, <<>>}

TemplateWithPlaceholders ==
    [TemplateFile EXCEPT !["AUTH_SECRET"] = DevSecretChangeInProduction,
                         !["KEYCLOAK_CLIENT_SECRET"] = DevSecretChangeInProduction]

Templates ==
    {[present |-> TRUE, file |-> TemplateFile],
     [present |-> TRUE, file |-> TemplateWithPlaceholders],
     [present |-> FALSE, file |-> EmptyFile]}

\* Marks a key that the file does not assign.
NotAssigned == <<"not assigned">>

\* The texts a line of the existing auth-service/.env has after the equals
\* sign: nothing, a placeholder, a plain value, a quoted value with spaces
\* inside the quotes, a quoted value in quotes.
EnvTexts(k) ==
    CASE k = "AUTH_SECRET" ->
           {NotAssigned, <<>>, DevSecretChangeInProduction, <<"s", "1">>, <<"\"", " ", "s", "1", " ", "\"">>}
      [] k = "KEYCLOAK_ISSUER" ->
           {NotAssigned, <<>>, <<"n", "o", "t", " ", "a", " ", "u", "r", "l">>, <<"h", "t", "t", "p", ":", "/", "/", "l", "o", "c", "a", "l", "h", "o", "s", "t", ":", "8", "0", "8", "0", "/">>}
      [] k = "KEYCLOAK_CLIENT_SECRET" ->
           {NotAssigned, <<>>, <<"k", "1">>, <<"\"", " ", "k", "1", " ", "\"">>}
      [] OTHER -> {NotAssigned, <<"d", "e", "b", "u", "g">>, <<"'", "\"", "d", "e", "b", "u", "g", "\"", "'">>}

EnvKeys == {"AUTH_SECRET", "KEYCLOAK_ISSUER", "KEYCLOAK_CLIENT_SECRET", "LOG_LEVEL"}

ExistingFiles ==
    {[k \in {j \in EnvKeys : f[j] # NotAssigned} |-> f[k]] :
        f \in {h \in [EnvKeys -> UNION {EnvTexts(k) : k \in EnvKeys}] :
                 \A k \in EnvKeys : h[k] \in EnvTexts(k)}}

InitGensecret ==
    /\ ServiceIdle
    /\ srIn = NoShouldRefresh /\ srOut = FALSE
    /\ rdIn = NoRedirect /\ rdOut = <<>>
    /\ seIn = NoSessionCall /\ seOut = NoSessionCall.session
    /\ client = NoClient /\ store = NoStore
    /\ \E t \in Templates, e \in ExistingFiles :
         gen = [NoGen EXCEPT !.template = t, !.existing = e, !.envFile = e]

NextGensecret ==
    \/ \E force, sync \in BOOLEAN, generated \in GeneratedSecrets :
         GenStart(force, sync, generated)
    \/ \E o \in FetchOutcomes : AdminTokenAnswer(o)
    \/ \E o \in FetchOutcomes : ClientsAnswer(o)
    \/ \E o \in FetchOutcomes, v \in FetchedSecrets : ClientSecretAnswer(o, v)
    \/ GenResume

SpecGensecret == InitGensecret /\ [][NextGensecret]_vars

\* The value of AUTH_SECRET the script decides on: that of the existing file,
\* else that of the template, else empty.
CurrentAuthSecret ==
    GetOr(MergeValues(parseEnv(gen.template.file), parseEnv(gen.existing)),
          "AUTH_SECRET", <<>>)

\* C23: when gensecret has written auth-service/.env, the AUTH_SECRET of the
\* file is a newly generated value exactly when --force was given or the
\* current value (existing file before template) is empty or a placeholder;
\* otherwise it equals the current value, and every other key of the existing
\* file (the client secret aside, which the script may fetch) has the value
\* it had.
C23_AuthSecretReplacedOnlyWhenDue ==
    (gen.pc = "exited" /\ gen.code = 0) =>
        LET old == parseEnv(gen.existing)
            new == parseEnv(gen.envFile)
            due == gen.force \/ isPlaceholderAuthSecret(CurrentAuthSecret)
        IN
        /\ "AUTH_SECRET" \in DOMAIN new
        /\ due => new["AUTH_SECRET"] \in GeneratedSecrets
        /\ ~due => new["AUTH_SECRET"] = CurrentAuthSecret
        /\ \A k \in DOMAIN old \ {"AUTH_SECRET", "KEYCLOAK_CLIENT_SECRET"} :
             k \in DOMAIN new /\ new[k] = old[k]

\* The value of KEYCLOAK_CLIENT_SECRET before the run: that of the existing
\* file, else that of the template, else empty.
CurrentClientSecret ==
    GetOr(MergeValues(parseEnv(gen.template.file), parseEnv(gen.existing)),
          "KEYCLOAK_CLIENT_SECRET", <<>>)

\* C24: a run of gensecret never aborts while fetching, and when it has ended
\* the KEYCLOAK_CLIENT_SECRET of auth-service/.env differs from the current
\* value only if --sync-keycloak-secret was given or the current value is
\* empty or a placeholder, an issuer is set, and the Admin API returned a
\* secret, which is then the new value; after any failure of the fetch the
\* value is the current one.
C24_ClientSecretOnlyFromKeycloak ==
    /\ gen.pc # "aborted"
    /\ (gen.pc = "exited" /\ gen.code = 0) =>
          LET new == GetOr(parseEnv(gen.envFile), "KEYCLOAK_CLIENT_SECRET", <<>>)
              issuer == GetOr(MergeValues(parseEnv(gen.template.file),
                                          parseEnv(gen.existing)),
                              "KEYCLOAK_ISSUER", <<>>)
          IN
          /\ new # CurrentClientSecret =>
                /\ gen.sync \/ isPlaceholderSecret(CurrentClientSecret)
                /\ issuer # <<>>
                /\ gen.fetch = "ok" /\ gen.fetched # <<>>
                /\ new = gen.fetched
          /\ gen.fetch \notin {"none", "ok"} => new = CurrentClientSecret

\* C25: a jwt invocation with an account completes in one step with the token
\* it was given, in which accessToken, refreshToken and expiresAt are those of
\* the account and the error flag is cleared (sub kept); it sends no request
\* and leaves the registry and the rotations as they were, whether or not the
\* token was stale or carried the error flag.
C25_SignInStoresAccount ==
    [][\A c \in Callers :
         (/\ caller[c].pc = "arrived" /\ caller'[c].pc # "arrived"
          /\ caller[c].account.present)
             => /\ caller'[c].pc = "done"
                /\ caller'[c].result =
                     Fulfilled(Token(caller[c].account.access_token,
                                     caller[c].account.refresh_token,
                                     caller[c].account.expires_at,
                                     Undefined,
                                     caller[c].arg.sub))
                /\ requests' = requests
                /\ refreshLocks' = refreshLocks
                /\ rot' = rot]_vars

\* C25 witness: a sign-in on a session whose token was expired and carried the
\* error flag has completed with the account's tokens and without error flag,
\* and this invocation sent no request.
C25_Witness ==
    \E c \in Callers :
        /\ caller[c].pc = "done" /\ caller[c].account.present
        /\ caller[c].presented.error = REFRESH_TOKEN_ERROR
        /\ shouldRefreshToken(caller[c].presented, now)
        /\ caller[c].result.token.accessToken = caller[c].account.access_token
        /\ caller[c].result.token.refreshToken = "rt1"
        /\ caller[c].result.token.expiresAt = NumV(1010)
        /\ caller[c].result.token.error = Undefined
        /\ RequestsBy(c) = {} /\ rot[c] = NoRotation

\* C26: a jwt invocation without account on a token for which
\* shouldRefreshToken is false completes in one step with that token, every
\* field as it was, sends no request and leaves the registry and the
\* rotations as they were.
C26_NoRefreshReturnsTokenUnchanged ==
    [][\A c \in Callers :
         (/\ caller[c].pc = "arrived" /\ caller'[c].pc # "arrived"
          /\ ~caller[c].account.present
          /\ ~shouldRefreshToken(caller[c].arg, now))
             => /\ caller'[c].pc = "done"
                /\ caller'[c].result = Fulfilled(caller[c].presented)
                /\ caller'[c].arg = caller[c].presented
                /\ requests' = requests
                /\ refreshLocks' = refreshLocks
                /\ rot' = rot]_vars

\* C26 witness: an invocation on the token that expires at 1090, at second
\* 1000, has completed with the token it presented, and sent no request.
C26_Witness ==
    \E c \in Callers :
        /\ now = 1000
        /\ caller[c].pc = "done" /\ ~caller[c].account.present
        /\ caller[c].presented.expiresAt = NumV(1090)
        /\ caller[c].result = Fulfilled(caller[c].presented)
        /\ caller[c].await = 0 /\ RequestsBy(c) = {}

----------------------------------------------------------------------------
(* Two browser sessions of one subject *)

\* Sessions A and B of subject u1, each with its own tokens, both stale at
\* the start.
TwoSessions ==
    {[s \in {"A", "B"} |->
        IF s = "A" THEN Token("at1", "rt1", NumV(990), Undefined, "u1")
        ELSE Token("at3", "rt3", NumV(990), Undefined, "u1")]}

InitTwoSessions == ServiceInit({ConfiguredEnv}, TwoSessions) /\ ProbesIdle

\* The steps of the service for requests that carry a session cookie and no
\* account (no sign-in takes place), all within the same second.
NextSignedIn ==
    \/ \E c \in Callers, s \in DOMAIN cookie :
         Arrive(c, s, NoAccount) /\ UNCHANGED probeVars
    \/ \E c \in Callers : Jwt(c) /\ UNCHANGED probeVars
    \/ \E p \in Callers, ok \in BOOLEAN : FetchResponds(p, ok) /\ UNCHANGED probeVars
    \/ \E p \in Callers : FetchThrows(p) /\ UNCHANGED probeVars
    \/ \E p \in Callers, b \in Bodies : JsonResolves(p, b) /\ UNCHANGED probeVars
    \/ \E p \in Callers : JsonThrows(p) /\ UNCHANGED probeVars
    \/ \E p \in Callers : ThenFinally(p) /\ UNCHANGED probeVars
    \/ \E c \in Callers : Resume(c) /\ UNCHANGED probeVars

SpecTwoSessions == InitTwoSessions /\ [][NextSignedIn]_vars

----------------------------------------------------------------------------
(* Rotations whose request is answered *)

\* The steps of the service when the token endpoint answers every request
\* with a status: fetch never rejects.
NextAnswered ==
    \/ \E c \in Callers, s \in DOMAIN cookie, a \in Accounts \cup {NoAccount} :
         Arrive(c, s, a) /\ UNCHANGED probeVars
    \/ \E c \in Callers : Jwt(c) /\ UNCHANGED probeVars
    \/ \E p \in Callers, ok \in BOOLEAN : FetchResponds(p, ok) /\ UNCHANGED probeVars
    \/ \E p \in Callers, b \in Bodies : JsonResolves(p, b) /\ UNCHANGED probeVars
    \/ \E p \in Callers : JsonThrows(p) /\ UNCHANGED probeVars
    \/ \E p \in Callers : ThenFinally(p) /\ UNCHANGED probeVars
    \/ \E c \in Callers : Resume(c) /\ UNCHANGED probeVars
    \/ Tick /\ UNCHANGED probeVars

\* The event loop runs every callback that is ready (the jwt callback of a
\* request that arrived, the continuation after an await, .then/.finally, the
\* resumption of an invocation whose promise settled); the token endpoint
\* answers every request, and the body of an answer is read to its end.
FairAnswered ==
    \A c \in Callers :
        /\ WF_vars(Jwt(c) /\ UNCHANGED probeVars)
        /\ WF_vars((\E ok \in BOOLEAN : FetchResponds(c, ok)) /\ UNCHANGED probeVars)
        /\ WF_vars(((\E b \in Bodies : JsonResolves(c, b)) \/ JsonThrows(c))
                       /\ UNCHANGED probeVars)
        /\ WF_vars(ThenFinally(c) /\ UNCHANGED probeVars)
        /\ WF_vars(Resume(c) /\ UNCHANGED probeVars)

SpecAnswered == Init /\ [][NextAnswered]_vars /\ FairAnswered

\* C28: when every request to the token endpoint is answered with a status,
\* every invocation that started a rotation or attached to one eventually
\* completes with a token, the registry eventually is empty again, and an
\* invocation whose rotation has settled does not stay suspended.
C28_EveryCallerReceivesToken ==
    /\ \A c \in Callers :
         (caller[c].pc = "waiting")
             ~> (caller[c].pc = "done" /\ caller[c].result.kind = "token")
    /\ (DOMAIN refreshLocks # {}) ~> (DOMAIN refreshLocks = {})
    /\ \A c \in Callers :
         (caller[c].pc = "waiting" /\ rot[caller[c].await].phase = "settled")
             ~> (caller[c].pc = "done")


----------------------------------------------------------------------------
(* One exchange per refresh token *)

\* C29: among the requests of one session no refresh token value is sent to
\* the token endpoint by more than one rotation, also when an invocation that
\* still carries the token from before a rotation runs after that rotation
\* has settled and its registry entry is gone.
C29_RefreshTokenSubmittedOnce ==
    \A q1, q2 \in requests :
        (/\ caller[q1.by].sess = caller[q2.by].sess
         /\ q1.refresh_token = q2.refresh_token)
            => q1.by = q2.by


----------------------------------------------------------------------------
(* The error result keeps the credentials *)

\* The fields of a token other than the error flag.
SameButError(result, token) ==
    /\ result.accessToken = token.accessToken
    /\ result.refreshToken = token.refreshToken
    /\ result.expiresAt = token.expiresAt
    /\ result.sub = token.sub

\* C30: a token that comes out of a rotation with the error flag (after a
\* missing configuration or a non-success status) has the accessToken,
\* refreshToken, expiresAt and sub of the token the rotation was started with,
\* before and after .then; and an invocation that ends with an error-marked
\* token, at once for a missing refresh token or by the rotation it started,
\* has received the fields of the token it presented.
C30_ErrorKeepsFields ==
    /\ \A p \in Callers :
         /\ (/\ rot[p].phase \in {"inner", "settled"}
             /\ rot[p].inner.kind = "token"
             /\ rot[p].inner.token.error = REFRESH_TOKEN_ERROR)
                => SameButError(rot[p].inner.token, rot[p].token)
         /\ (/\ rot[p].phase = "settled"
             /\ rot[p].out.kind = "token"
             /\ rot[p].out.token.error = REFRESH_TOKEN_ERROR)
                => SameButError(rot[p].out.token, rot[p].token)
    /\ \A c \in Callers :
         (/\ caller[c].pc = "done"
          /\ ~caller[c].account.present
          /\ caller[c].await \in {0, c}
          /\ caller[c].result.kind = "token"
          /\ caller[c].result.token.error = REFRESH_TOKEN_ERROR)
             => SameButError(caller[c].result.token, caller[c].presented)

\* C30 witness: the token endpoint answered a rotation with a non-success
\* status, and the invocation that started it has completed with the error
\* flag and with the credentials it presented, none of them empty.
C30_Witness ==
    \E p \in Callers :
        /\ NonSuccessStatus(p) /\ rot[p].phase = "settled"
        /\ caller[p].pc = "done" /\ caller[p].await = p
        /\ caller[p].result.token.error = REFRESH_TOKEN_ERROR
        /\ caller[p].presented.error = Undefined
        /\ Truthy(caller[p].result.token.accessToken)
        /\ Truthy(caller[p].result.token.refreshToken)
        /\ caller[p].result.token.expiresAt = NumV(990)
        /\ Truthy(caller[p].result.token.sub)


----------------------------------------------------------------------------
(* The auth store of the single-page application *)

\* Lines 18-20: set(state => ({ auth: { ...state.auth, isLoading: true } })).
SetLoading(st) == [st EXCEPT !.isLoading = TRUE]

\* A second set that stores the session and leaves isLoading as it is.
SetSessionStillLoading(st, session) == [st EXCEPT !.session = session]

\* Lines 22-24: set(state => ({ auth: { ...state.auth, session, isLoading: false } })).
SetSession(st, session) == [st EXCEPT !.session = session, !.isLoading = FALSE]

\* Lines 26-29: reset.
ResetAuth(st) == [st EXCEPT !.session = NullSession, !.isLoading = FALSE]

storeRest == <<serviceVars, callbackVars, client, gen>>

\* fetchSession up to its await: isLoading is set, getSession sends the request.
FetchSession(f) ==
    /\ store.call[f].pc = "idle"
    /\ \A g \in Fetches : g < f => store.call[g].pc # "idle"
    /\ store' = [SetLoading(store) EXCEPT !.call[f].pc = "fetch",
                                          !.call[f].since = store.resets]
    /\ UNCHANGED storeRest

\* getSession has returned session; the await of line 21 resumes in the same
\* turn of the event loop and lines 22-24 run.
FetchSessionResumes(f, answer, session) ==
    store' = [SetSession(store, session) EXCEPT !.call[f].pc = "done",
                                                !.call[f].answer = answer,
                                                !.call[f].got = session,
                                                !.writer = f]

\* getSession lines 20-21: the response arrives; a non-success status is null.
StoreFetchResponds(f, ok) ==
    /\ store.call[f].pc = "fetch"
    /\ IF ok THEN store' = [store EXCEPT !.call[f].pc = "json"]
       ELSE FetchSessionResumes(f, "status", NullSession)
    /\ UNCHANGED storeRest

\* getSession lines 20 and 26-28: fetch rejects, the catch block returns null.
StoreFetchThrows(f) ==
    /\ store.call[f].pc = "fetch"
    /\ FetchSessionResumes(f, "rejected", NullSession)
    /\ UNCHANGED storeRest

\* getSession lines 22-25: the body has been read.
StoreJsonResolves(f, body) ==
    /\ store.call[f].pc = "json"
    /\ FetchSessionResumes(f, "body", SessionOfBody(body))
    /\ UNCHANGED storeRest

\* getSession lines 22 and 26-28: res.json() rejects, the catch block returns null.
StoreJsonThrows(f) ==
    /\ store.call[f].pc = "json"
    /\ FetchSessionResumes(f, "badjson", NullSession)
    /\ UNCHANGED storeRest

\* reset(), called from an event handler between two turns of the event loop.
Reset ==
    /\ store.resets < MaxResets
    /\ store' = [ResetAuth(store) EXCEPT !.resets = @ + 1, !.writer = 0]
    /\ UNCHANGED storeRest

InitStore == ServiceIdle /\ ProbesIdle

NextStore ==
    \/ \E f \in Fetches : FetchSession(f)
    \/ \E f \in Fetches, ok \in BOOLEAN : StoreFetchResponds(f, ok)
    \/ \E f \in Fetches : StoreFetchThrows(f)
    \/ \E f \in Fetches, b \in SessionBodies : StoreJsonResolves(f, b)
    \/ \E f \in Fetches : StoreJsonThrows(f)
    \/ Reset

SpecStore == InitStore /\ [][NextStore]_vars

\* C31: after a reset the store holds a session only if a fetchSession that
\* was started after that reset wrote it; a fetchSession started before the
\* reset leaves the session null.
C31_ResetNotUndoneByEarlierFetch ==
    (store.resets > 0 /\ store.session.kind = "session")
        => /\ store.writer # 0
           /\ store.call[store.writer].since = store.resets


\* The browser settles every request: a response arrives or the request
\* fails, and the body of a response is read to its end or the read fails.
FairStore ==
    \A f \in Fetches :
        /\ WF_vars((\E ok \in BOOLEAN : StoreFetchResponds(f, ok)) \/ StoreFetchThrows(f))
        /\ WF_vars((\E b \in SessionBodies : StoreJsonResolves(f, b)) \/ StoreJsonThrows(f))

SpecStoreFair == InitStore /\ [][NextStore]_vars /\ FairStore

InFlightFetch(f) == store.call[f].pc \in {"fetch", "json"}

----------------------------------------------------------------------------
(* Lock keys of different sessions *)

\* Subjects and refresh tokens as strings: the code puts no limit on the
\* characters of either, and the key joins them with a colon.
KeySubs == {Undefined, "u1", "u1:x"}

KeyRefreshTokens == {"rt1", "x:rt1", "u1:rt1"}

\* Sessions A and B, each stale, with any of the subjects and refresh tokens.
KeySessions ==
    [{"A", "B"} -> {Token("at1", rt, NumV(990), Undefined, sub) :
                        sub \in KeySubs, rt \in KeyRefreshTokens}]

InitKeySessions == ServiceInit({ConfiguredEnv}, KeySessions) /\ ProbesIdle

SpecKeySessions == InitKeySessions /\ [][NextSignedIn]_vars

\* The pair the lock key is made from; a token without sub has no subject.
KeyPair(token) ==
    <<IF Truthy(token.sub) THEN token.sub ELSE Undefined, token.refreshToken>>

\* C33: two rotations registered under the same key were started with the
\* same (subject, refresh token) pair, and an invocation attached to the
\* rotation of another invocation presented the pair of that rotation's token.
C33_LockKeyInjective ==
    /\ \A p, q \in Callers :
         (rot[p].phase # "none" /\ rot[q].phase # "none" /\ rot[p].key = rot[q].key)
             => KeyPair(rot[p].token) = KeyPair(rot[q].token)
    /\ \A c, p \in Callers :
         (c # p /\ caller[c].pc \in {"waiting", "done"} /\ caller[c].await = p)
             => KeyPair(caller[c].presented) = KeyPair(rot[p].token)

====
